---- MODULE Spec2Model ----
(***************************************************************************)
(* smtLayer/makeVM.py: the MakeVM function of the Systems Management Ultra *)
(* Thin Layer.  One request (a token list) is parsed by parseCmdline into  *)
(* the parameter map rh.parms, and doIt then calls the sub-function        *)
(* handler: createVM builds the lines of a z/VM user directory entry and   *)
(* submits them with one SMAPI call (Image_Create_DM).                     *)
(*                                                                         *)
(* Python strings are modelled as sequences of one-character strings, so   *)
(* that upper(), split(), strip(), replace(), int() and the % formatting   *)
(* are computed character by character as Python computes them.            *)
(***************************************************************************)
EXTENDS Integers, Sequences, FiniteSets, TLC

VARIABLES
    conf,         \* config.CONF.zvm.user_default_max_reserved_memory, in MB
    request,      \* rh.request: the token list of the request
    userid,       \* rh.userid
    subfunction,  \* rh.subfunction
    parms,        \* rh.parms: parameter key -> value
    results,      \* rh.results: [overallRC, rs]
    dirLines,     \* createVM's dirLines when createVM was left
    smcliCalls,   \* the SMAPI calls made: a sequence of [api, userid, lines]
    exc,          \* the exception that ended the request, "" when none
    pc            \* position of the request in its processing

vars == <<conf, request, userid, subfunction, parms, results, dirLines,
          smcliCalls, exc, pc>>

-----------------------------------------------------------------------------
(* String literals *)

\* Keywords of the command line (keys of keyOpsList), as character sequences.
K_cpus == <<"-","-","c","p","u","s">>
K_ipl == <<"-","-","i","p","l">>
K_logonby == <<"-","-","l","o","g","o","n","b","y">>
K_maxMemSize == <<"-","-","m","a","x","M","e","m","S","i","z","e">>
K_profile == <<"-","-","p","r","o","f","i","l","e">>
K_maxCPU == <<"-","-","m","a","x","C","P","U">>
K_setReservedMem == <<"-","-","s","e","t","R","e","s","e","r","v","e","d","M","e","m">>
K_showparms == <<"-","-","s","h","o","w","p","a","r","m","s">>
K_iplParam == <<"-","-","i","p","l","P","a","r","a","m">>
K_iplLoadparam == <<"-","-","i","p","l","L","o","a","d","p","a","r","a","m">>
K_dedicate == <<"-","-","d","e","d","i","c","a","t","e">>
K_loadportname == <<"-","-","l","o","a","d","p","o","r","t","n","a","m","e">>
K_loadlun == <<"-","-","l","o","a","d","l","u","n">>
K_vdisk == <<"-","-","v","d","i","s","k">>
K_account == <<"-","-","a","c","c","o","u","n","t">>
K_comment == <<"-","-","c","o","m","m","e","n","t">>
K_commandSchedule == <<"-","-","c","o","m","m","a","n","d","S","c","h","e","d","u","l","e">>
K_commandSetShare == <<"-","-","c","o","m","m","a","n","d","S","e","t","S","h","a","r","e">>
K_commandRelocationDomain == <<"-","-","c","o","m","m","a","n","d","R","e","l","o","c","a","t","i","o","n","D","o","m","a","i","n">>
K_commandPcif == <<"-","-","c","o","m","m","a","n","d","P","c","i","f">>

\* Sub-function names (keys of subfuncHandler).
S_DIRECTORY == <<"D","I","R","E","C","T","O","R","Y">>
S_HELP == <<"H","E","L","P">>
S_VERSION == <<"V","E","R","S","I","O","N">>

\* Literal text of the directory statements written by createVM.
L_USER == <<"U","S","E","R"," ">>
L_SP == <<" ">>
L_INCLUDE == <<"I","N","C","L","U","D","E"," ">>
L_MACHINE == <<"M","A","C","H","I","N","E"," ","E","S","A"," ">>
L_ACCOUNT == <<"A","C","C","O","U","N","T"," ">>
L_VCONFIG == <<"C","O","M","M","A","N","D"," ","S","E","T"," ","V","C","O","N","F","I","G"," ","M","O","D","E"," ","L","I","N","U","X">>
L_CPU00 == <<"C","O","M","M","A","N","D"," ","D","E","F","I","N","E"," ","C","P","U"," ","0","0"," ","T","Y","P","E"," ","I","F","L">>
L_CPU == <<"C","O","M","M","A","N","D"," ","D","E","F","I","N","E"," ","C","P","U"," ">>
L_TYPEIFL == <<" ","T","Y","P","E"," ","I","F","L">>
L_SCHEDULE == <<"C","O","M","M","A","N","D"," ","S","C","H","E","D","U","L","E"," ","*"," ","W","I","T","H","I","N"," ","P","O","O","L"," ">>
L_SHARE == <<"S","H","A","R","E"," ">>
L_RDOMAIN == <<"C","O","M","M","A","N","D"," ","S","E","T"," ","V","M","R","E","L","O","C","A","T","E"," ","*"," ","D","O","M","A","I","N"," ">>
L_PCIF == <<"C","O","M","M","A","N","D"," ","A","T","T","A","C","H"," ","P","C","I","F"," ">>
L_AS == <<" ","*"," ","A","S"," ">>
L_IPL == <<"I","P","L"," ">>
L_PARM == <<"P","A","R","M"," ">>
L_LOADPARM == <<"L","O","A","D","P","A","R","M"," ">>
L_LOGONBY == <<"L","O","G","O","N","B","Y"," ">>
L_RESERVED == <<"C","O","M","M","A","N","D"," ","D","E","F"," ","S","T","O","R"," ","R","E","S","E","R","V","E","D"," ">>
L_PORTNAME == <<"L","O","A","D","D","E","V"," ","P","O","R","T","n","a","m","e"," ">>
L_LUN == <<"L","O","A","D","D","E","V"," ","L","U","N"," ">>
L_DEDICATE == <<"D","E","D","I","C","A","T","E"," ">>
L_MDISK == <<"M","D","I","S","K"," ">>
L_FB512 == <<" ","F","B","-","5","1","2"," ","V","-","D","I","S","K"," ">>
L_MWV == <<" ","M","W","V">>
L_STAR == <<"*"," ">>
L_COMMENTSEP == <<"$","@","$","@","$">>
L_HEXPREFIX == <<"0","x">>

-----------------------------------------------------------------------------
(* Python's string built-ins, over sequences of characters *)

LowerLetters == <<"a","b","c","d","e","f","g","h","i","j","k","l","m",
                  "n","o","p","q","r","s","t","u","v","w","x","y","z">>
UpperLetters == <<"A","B","C","D","E","F","G","H","I","J","K","L","M",
                  "N","O","P","Q","R","S","T","U","V","W","X","Y","Z">>
DecDigits == <<"0","1","2","3","4","5","6","7","8","9">>
HexDigits == <<"0","1","2","3","4","5","6","7","8","9","A","B","C","D","E","F">>

IndexIn(c, table) == CHOOSE i \in 1..Len(table) : table[i] = c
Occurs(c, table) == \E i \in 1..Len(table) : table[i] = c

\* str.upper(), one character
UpperChar(c) == IF Occurs(c, LowerLetters) THEN UpperLetters[IndexIn(c, LowerLetters)] ELSE c

\* str.upper()
Upper(s) == [i \in 1..Len(s) |-> UpperChar(s[i])]

IsSpace(c) == c \in {" ", "\t", "\n", "\r"}

SetMin(S) == CHOOSE x \in S : \A y \in S : x <= y
SetMax(S) == CHOOSE x \in S : \A y \in S : y <= x

\* str.strip()
Strip(s) ==
    LET keep == {i \in 1..Len(s) : ~IsSpace(s[i])}
    IN  IF keep = {} THEN <<>> ELSE SubSeq(s, SetMin(keep), SetMax(keep))

\* s[:-1]
DropLast(s) == SubSeq(s, 1, Len(s) - 1)

\* s[-1] (the caller checks s is not empty: Python raises IndexError there)
LastChar(s) == s[Len(s)]

\* True when sep occurs in s at position i
MatchAt(s, sep, i) ==
    /\ i + Len(sep) - 1 <= Len(s)
    /\ \A j \in 1..Len(sep) : s[i + j - 1] = sep[j]

\* str.split(sep), sep not empty
RECURSIVE Split(_, _)
Split(s, sep) ==
    LET hits == {i \in 1..Len(s) : MatchAt(s, sep, i)}
    IN  IF hits = {} THEN <<s>>
        ELSE LET i == SetMin(hits)
             IN  <<SubSeq(s, 1, i - 1)>> \o Split(SubSeq(s, i + Len(sep), Len(s)), sep)

\* str.split() with no separator: runs of whitespace separate, no empty pieces
RECURSIVE SplitWhitespace(_)
SplitWhitespace(s) ==
    LET t == Strip(s)
        gaps == {i \in 1..Len(t) : IsSpace(t[i])}
    IN  IF t = <<>> THEN <<>>
        ELSE IF gaps = {} THEN <<t>>
        ELSE <<SubSeq(t, 1, SetMin(gaps) - 1)>>
             \o SplitWhitespace(SubSeq(t, SetMin(gaps), Len(t)))

\* sep.join(list)
RECURSIVE Join(_, _)
Join(list, sep) ==
    IF list = <<>> THEN <<>>
    ELSE IF Len(list) = 1 THEN list[1]
    ELSE list[1] \o sep \o Join(Tail(list), sep)

\* str.replace(old, new)
Replace(s, old, new) == Join(Split(s, old), new)

\* the digits of a non-negative integer
RECURSIVE NatStr(_)
NatStr(n) ==
    IF n < 10 THEN <<DecDigits[n + 1]>>
    ELSE NatStr(n \div 10) \o <<DecDigits[(n % 10) + 1]>>

\* "%i" % n and str(n) for an integer n
FormatInt(n) == IF n < 0 THEN <<"-">> \o NatStr(-n) ELSE NatStr(n)

RECURSIVE HexStr(_)
HexStr(n) ==
    IF n < 16 THEN <<HexDigits[n + 1]>>
    ELSE HexStr(n \div 16) \o <<HexDigits[(n % 16) + 1]>>

\* "%0.2X" % n for n >= 0: upper-case hexadecimal, at least two digits
FormatHex2(n) == IF n < 16 THEN <<"0">> \o HexStr(n) ELSE HexStr(n)

\* the part of a numeral int() reads after the blanks and the sign
Unsigned(s) ==
    LET t == Strip(s)
    IN  IF t # <<>> /\ t[1] \in {"+", "-"} THEN Tail(t) ELSE t

\* int(s) succeeds: blanks, an optional sign, then decimal digits (the
\* underscores int() also accepts between digits are in no token explored)
IsInt(s) ==
    /\ Unsigned(s) # <<>>
    /\ \A i \in 1..Len(Unsigned(s)) : Occurs(Unsigned(s)[i], DecDigits)

RECURSIVE DigitsValue(_)
DigitsValue(d) ==
    IF d = <<>> THEN 0
    ELSE DigitsValue(DropLast(d)) * 10 + (IndexIn(d[Len(d)], DecDigits) - 1)

\* int(s), where IsInt(s); Python raises ValueError otherwise
IntOf(s) ==
    LET t == Strip(s)
    IN  IF t[1] = "-" THEN 0 - DigitsValue(Unsigned(s)) ELSE DigitsValue(Unsigned(s))

-----------------------------------------------------------------------------
(* Module data *)

\* max vdisk blocks can't exceed 4194296
MAX_VDISK_BLOCKS == 4194296

\* the sub-functions that have a handler
subfuncHandler == {S_DIRECTORY, S_HELP, S_VERSION}

\* positional operands: <<readable name, key in parms, required, type>>
posOpsList ==
    [sub \in {S_DIRECTORY} |->
        << <<"password", "pw", TRUE, 2>>,
           <<"Primary Memory Size (e.g. 2G)", "priMemSize", TRUE, 2>>,
           <<"Privilege Class(es)", "privClasses", TRUE, 2>> >>]

\* keyword operands of DIRECTORY: keyword -> <<key in parms, values, type>>
keyOpsDirectory ==
    (K_cpus :> <<"cpuCnt", 1, 1>>) @@
    (K_ipl :> <<"ipl", 1, 2>>) @@
    (K_logonby :> <<"byUsers", 1, 2>>) @@
    (K_maxMemSize :> <<"maxMemSize", 1, 2>>) @@
    (K_profile :> <<"profName", 1, 2>>) @@
    (K_maxCPU :> <<"maxCPU", 1, 1>>) @@
    (K_setReservedMem :> <<"setReservedMem", 0, 0>>) @@
    (K_showparms :> <<"showParms", 0, 0>>) @@
    (K_iplParam :> <<"iplParam", 1, 2>>) @@
    (K_iplLoadparam :> <<"iplLoadparam", 1, 2>>) @@
    (K_dedicate :> <<"dedicate", 1, 2>>) @@
    (K_loadportname :> <<"loadportname", 1, 2>>) @@
    (K_loadlun :> <<"loadlun", 1, 2>>) @@
    (K_vdisk :> <<"vdisk", 1, 2>>) @@
    (K_account :> <<"account", 1, 2>>) @@
    (K_comment :> <<"comment", 1, 2>>) @@
    (K_commandSchedule :> <<"commandSchedule", 1, 2>>) @@
    (K_commandSetShare :> <<"commandSetShare", 1, 2>>) @@
    (K_commandRelocationDomain :> <<"commandRDomain", 1, 2>>) @@
    (K_commandPcif :> <<"commandSchedule", 1, 2>>)

keyOpsList ==
    [sub \in subfuncHandler |-> IF sub = S_DIRECTORY THEN keyOpsDirectory ELSE <<>>]

-----------------------------------------------------------------------------
(* The request handle's results and the message catalogue *)

\* rh.results of a fresh request handle
NoError == [overallRC |-> 0, rs |-> "0000"]

\* msgs.msg[id][0]: the return codes of message id, a non-zero overallRC
msg(id) == [overallRC |-> 4, rs |-> id]

\* rh.updateResults(newResults)
updateResults(old, new) == new

\* rh.parms[key] = value
Put(p, key, value) ==
    [k \in (DOMAIN p) \cup {key} |-> IF k = key THEN value ELSE p[k]]

-----------------------------------------------------------------------------
(* getReservedMemSize *)

\* the failure exits: gap is still '0M'
ReservedFailure(rs, id) ==
    [gap |-> <<"0", "M">>, results |-> updateResults(rs, msg(id)), exc |-> ""]

ReservedRaise(rs, e) == [gap |-> <<>>, results |-> rs, exc |-> e]

\* FormatGap without the cap of lines 523-524
FormatGapUncapped(memMb, maxMemMb, maxStorReserved) ==
    LET gapSize == maxMemMb - memMb
    IN  IF gapSize > 9999999
        THEN FormatInt(gapSize \div 1024) \o <<"G">>
        ELSE FormatInt(gapSize) \o <<"M">>

\* lines 518-530: the gap, capped by the configured maximum, with its unit;
\* gapSize / 1024 is a float that %i truncates: for a gap above 9999999 that
\* is the integer quotient
FormatGap(memMb, maxMemMb, maxStorReserved) ==
    LET gapSize == maxMemMb - memMb
        capped == IF gapSize > maxStorReserved THEN maxStorReserved ELSE gapSize
    IN  IF capped > 9999999
        THEN FormatInt(capped \div 1024) \o <<"G">>
        ELSE FormatInt(capped) \o <<"M">>

\* mem and maxMem normalised to MB (lines 499-504)
ToMb(size, suffix) == IF suffix = "G" THEN IntOf(DropLast(size)) * 1024 ELSE IntOf(DropLast(size))

getReservedMemSize(rs, mem, maxMem, maxStorReserved) ==
    IF mem = <<>> \/ maxMem = <<>> THEN ReservedRaise(rs, "IndexError")
    ELSE
    LET memSuffix == UpperChar(LastChar(mem))
        maxMemSuffix == UpperChar(LastChar(maxMem))
    IN  IF memSuffix \notin {"M", "G"} \/ maxMemSuffix \notin {"M", "G"}
        THEN ReservedFailure(rs, "0205")
        ELSE IF ~IsInt(DropLast(mem)) \/ ~IsInt(DropLast(maxMem))
        THEN ReservedRaise(rs, "ValueError")
        ELSE
        LET memMb == ToMb(mem, memSuffix)
            maxMemMb == ToMb(maxMem, maxMemSuffix)
        IN  IF maxMemMb < memMb
            THEN ReservedFailure(rs, "0206")
            ELSE [gap |-> FormatGap(memMb, maxMemMb, maxStorReserved),
                  results |-> rs, exc |-> ""]

-----------------------------------------------------------------------------
(* createVM.  A run of createVM is a record                                *)
(*   lines    - dirLines so far                                            *)
(*   results  - rh.results                                                 *)
(*   exc      - the exception raised, "" when none                         *)
(*   returned - createVM has executed a return statement                   *)
(*   calls    - the invokeSMCLI calls made                                 *)
(* and each block of the function maps the run to the run after it.        *)

Running(st) == st.exc = "" /\ ~st.returned

Append1(st, line) == [st EXCEPT !.lines = Append(@, line)]

AppendAll(st, more) == [st EXCEPT !.lines = @ \o more]

Raise(st, e) == [st EXCEPT !.exc = e]

\* lines 112-115: the USER statement
UserLine(uid, p) ==
    L_USER \o uid \o L_SP \o p["pw"] \o L_SP \o p["priMemSize"] \o L_SP
           \o p["maxMemSize"] \o L_SP \o p["privClasses"]

\* lines 128-130: COMMAND DEFINE CPU for 1 .. cpuCnt - 1
CpuLines(p) ==
    IF "cpuCnt" \in DOMAIN p /\ p["cpuCnt"] > 1
    THEN [i \in 1..(p["cpuCnt"] - 1) |-> L_CPU \o FormatHex2(i) \o L_TYPEIFL]
    ELSE <<>>

\* createVM_identity without the COMMAND SET VCONFIG MODE LINUX line
createVM_identityNoVconfig(st, uid, p) ==
    AppendAll(st,
        <<UserLine(uid, p)>>
        \o (IF "profName" \in DOMAIN p THEN <<L_INCLUDE \o Upper(p["profName"])>> ELSE <<>>)
        \o (IF "maxCPU" \in DOMAIN p THEN <<L_MACHINE \o FormatInt(p["maxCPU"])>> ELSE <<>>)
        \o (IF "account" \in DOMAIN p THEN <<L_ACCOUNT \o Upper(p["account"])>> ELSE <<>>)
        \o <<L_CPU00>>
        \o CpuLines(p))

\* lines 112-130
createVM_identity(st, uid, p) ==
    AppendAll(st,
        <<UserLine(uid, p)>>
        \o (IF "profName" \in DOMAIN p THEN <<L_INCLUDE \o Upper(p["profName"])>> ELSE <<>>)
        \o (IF "maxCPU" \in DOMAIN p THEN <<L_MACHINE \o FormatInt(p["maxCPU"])>> ELSE <<>>)
        \o (IF "account" \in DOMAIN p THEN <<L_ACCOUNT \o Upper(p["account"])>> ELSE <<>>)
        \o <<L_VCONFIG, L_CPU00>>
        \o CpuLines(p))

\* lines 132-142
createVM_commands(st, p) ==
    AppendAll(st,
        (IF "commandSchedule" \in DOMAIN p THEN <<L_SCHEDULE \o p["commandSchedule"]>> ELSE <<>>)
        \o (IF "commandSetShare" \in DOMAIN p THEN <<L_SHARE \o p["commandSetShare"]>> ELSE <<>>)
        \o (IF "commandRDomain" \in DOMAIN p THEN <<L_RDOMAIN \o p["commandRDomain"]>> ELSE <<>>))

\* lines 144-147
createVM_pcif(st, p) ==
    IF ~Running(st) \/ "commandPcif" \notin DOMAIN p THEN st
    ELSE LET s == Split(p["commandPcif"], <<":">>)
         IN  IF Len(s) < 2 THEN Raise(st, "IndexError")
             ELSE Append1(st, L_PCIF \o s[1] \o L_AS \o s[2])

\* lines 149-158
IplString(p) ==
    L_IPL \o p["ipl"] \o L_SP
    \o (IF "iplParam" \in DOMAIN p THEN L_PARM \o p["iplParam"] \o L_SP ELSE <<>>)
    \o (IF "iplLoadparam" \in DOMAIN p THEN L_LOADPARM \o p["iplLoadparam"] \o L_SP ELSE <<>>)

\* lines 149-162
createVM_ipl(st, p) ==
    IF ~Running(st) THEN st
    ELSE AppendAll(st,
        (IF "ipl" \in DOMAIN p THEN <<IplString(p)>> ELSE <<>>)
        \o (IF "byUsers" \in DOMAIN p THEN <<L_LOGONBY \o Join(p["byUsers"], L_SP)>> ELSE <<>>))

\* createVM_reserved that writes the line only for a gap other than 0M
createVM_reservedSkipZero(st, p, maxStorReserved) ==
    IF ~Running(st) \/ "setReservedMem" \notin DOMAIN p THEN st
    ELSE LET priMem == Upper(p["priMemSize"])
             maxMem == Upper(p["maxMemSize"])
             r == getReservedMemSize(st.results, priMem, maxMem, maxStorReserved)
         IN  IF r.exc # "" THEN Raise(st, r.exc)
             ELSE IF r.results.overallRC # 0
             THEN [st EXCEPT !.results = r.results, !.returned = TRUE]
             ELSE IF r.gap = <<"0", "M">> THEN st
             ELSE Append1(st, L_RESERVED \o r.gap)

\* lines 164-178
createVM_reserved(st, p, maxStorReserved) ==
    IF ~Running(st) \/ "setReservedMem" \notin DOMAIN p THEN st
    ELSE LET priMem == Upper(p["priMemSize"])
             maxMem == Upper(p["maxMemSize"])
             r == getReservedMemSize(st.results, priMem, maxMem, maxStorReserved)
         IN  IF r.exc # "" THEN Raise(st, r.exc)
             ELSE IF r.results.overallRC # 0
             THEN [st EXCEPT !.results = r.results, !.returned = TRUE]
             ELSE Append1(st, L_RESERVED \o r.gap)

\* lines 180-192
createVM_devices(st, p) ==
    IF ~Running(st) THEN st
    ELSE AppendAll(st,
        (IF "loadportname" \in DOMAIN p
         THEN <<L_PORTNAME \o Replace(p["loadportname"], L_HEXPREFIX, <<>>)>> ELSE <<>>)
        \o (IF "loadlun" \in DOMAIN p
            THEN <<L_LUN \o Replace(p["loadlun"], L_HEXPREFIX, <<>>)>> ELSE <<>>)
        \o (IF "dedicate" \in DOMAIN p
            THEN LET vdevs == SplitWhitespace(p["dedicate"])
                 IN  [i \in 1..Len(vdevs) |-> L_DEDICATE \o vdevs[i] \o L_SP \o vdevs[i]]
            ELSE <<>>))

\* VdiskBlocks that takes only the unit G as gigabytes
VdiskBlocksOnlyG(sizeUpper) ==
    IF LastChar(sizeUpper) = "G"
    THEN IntOf(DropLast(sizeUpper)) * 2097152
    ELSE IntOf(DropLast(sizeUpper)) * 2048

\* lines 198-203: the size in 512-byte blocks
VdiskBlocks(sizeUpper) ==
    IF LastChar(sizeUpper) = "M"
    THEN IntOf(DropLast(sizeUpper)) * 2048
    ELSE IntOf(DropLast(sizeUpper)) * 2097152

\* ClampBlocks without the clamp
ClampBlocksOff(blocks) == blocks

\* lines 217-218: the maximum number of VDISK blocks is 4194296
ClampBlocks(blocks) == IF blocks > MAX_VDISK_BLOCKS THEN MAX_VDISK_BLOCKS ELSE blocks

\* TooLarge that accepts every size
TooLargeNever(blocks) == FALSE

\* TooLarge that refuses 2G itself
TooLargeAtLimit(blocks) == blocks >= 4194304

\* line 205: a disk larger than 2G is not supported
TooLarge(blocks) == blocks > 4194304

\* lines 194-220
createVM_vdisk(st, p) ==
    IF ~Running(st) \/ "vdisk" \notin DOMAIN p THEN st
    ELSE LET v == Split(p["vdisk"], <<":">>)
         IN  IF Len(v) < 2 THEN Raise(st, "IndexError")
             ELSE LET sizeUpper == Upper(Strip(v[2]))
                  IN  IF sizeUpper = <<>> THEN Raise(st, "IndexError")
                      ELSE IF ~IsInt(DropLast(sizeUpper)) THEN Raise(st, "ValueError")
                      ELSE LET blocks == VdiskBlocks(sizeUpper)
                           IN  IF TooLarge(blocks)
                               THEN [st EXCEPT !.results = updateResults(@, msg("0207")),
                                               !.returned = TRUE]
                               ELSE Append1(st, L_MDISK \o v[1] \o L_FB512
                                                \o FormatInt(ClampBlocks(blocks)) \o L_MWV)

\* lines 222-225
createVM_comment(st, p) ==
    IF ~Running(st) \/ "comment" \notin DOMAIN p THEN st
    ELSE LET parts == Split(p["comment"], L_COMMENTSEP)
             kept == SelectSeq(parts, LAMBDA c : c # <<>>)
         IN  AppendAll(st, [i \in 1..Len(kept) |-> L_STAR \o Upper(kept[i])])

\* lines 229-230: the text of the temporary file
ToWrite(lines) == Join(lines, <<"\n">>) \o <<"\n">>

\* lines 227-244: smapi is the results of invokeSMCLI
createVM_submit(st, uid, smapi) ==
    IF ~Running(st) THEN st
    ELSE [st EXCEPT
            !.calls = Append(@, [api |-> "Image_Create_DM", userid |-> uid,
                                 file |-> ToWrite(st.lines)]),
            !.results = IF smapi.overallRC # 0 THEN updateResults(@, smapi) ELSE @,
            !.returned = TRUE]

\* createVM with the device lines (180-192) built before the reserved-memory
\* line (164-178)
createVM_devicesFirst(uid, p, rs, maxStorReserved, smapi) ==
    LET st0 == [lines |-> <<>>, results |-> rs, exc |-> "", returned |-> FALSE,
                calls |-> <<>>]
        st1 == createVM_commands(createVM_identity(st0, uid, p), p)
        st2 == createVM_ipl(createVM_pcif(st1, p), p)
        st3 == createVM_reserved(createVM_devices(st2, p), p, maxStorReserved)
        st4 == createVM_comment(createVM_vdisk(st3, p), p)
    IN  createVM_submit(st4, uid, smapi)

createVM(uid, p, rs, maxStorReserved, smapi) ==
    LET st0 == [lines |-> <<>>, results |-> rs, exc |-> "", returned |-> FALSE,
                calls |-> <<>>]
        st1 == createVM_commands(createVM_identity(st0, uid, p), p)
        st2 == createVM_ipl(createVM_pcif(st1, p), p)
        st3 == createVM_devices(createVM_reserved(st2, p, maxStorReserved), p)
        st4 == createVM_comment(createVM_vdisk(st3, p), p)
    IN  createVM_submit(st4, uid, smapi)

-----------------------------------------------------------------------------
(* generalUtils.parseCmdline: the generic parser of positional and keyword *)
(* operands, from the rh.argPos-th token on.                               *)

ParseFailure(p, id) == [parms |-> p, results |-> msg(id)]

\* keyword operands: a recognised keyword takes the values that follow it
RECURSIVE parseKeywords(_, _, _, _)
parseKeywords(req, ops, argPos, p) ==
    IF argPos > Len(req) THEN [parms |-> p, results |-> NoError]
    ELSE IF req[argPos] \notin DOMAIN ops THEN ParseFailure(p, "0005")
    ELSE LET key == ops[req[argPos]][1]
             opCnt == ops[req[argPos]][2]
             opType == ops[req[argPos]][3]
         IN  IF opCnt = 0 THEN parseKeywords(req, ops, argPos + 1, Put(p, key, TRUE))
             ELSE IF argPos + opCnt > Len(req) THEN ParseFailure(p, "0003")
             ELSE IF opType = 1 /\ ~IsInt(req[argPos + 1]) THEN ParseFailure(p, "0004")
             ELSE parseKeywords(req, ops, argPos + 1 + opCnt,
                      Put(p, key, IF opType = 1 THEN IntOf(req[argPos + 1])
                                  ELSE req[argPos + 1]))

\* positional operands, in the declared order; then the keywords
RECURSIVE parsePositional(_, _, _, _, _, _)
parsePositional(req, ops, keyOps, currOp, argPos, p) ==
    IF currOp > Len(ops) THEN parseKeywords(req, keyOps, argPos, p)
    ELSE IF argPos > Len(req)
    THEN IF ops[currOp][3] THEN ParseFailure(p, "0002")
         ELSE parseKeywords(req, keyOps, argPos, p)
    ELSE IF ops[currOp][4] = 1 /\ ~IsInt(req[argPos]) THEN ParseFailure(p, "0001")
    ELSE parsePositional(req, ops, keyOps, currOp + 1, argPos + 1,
             Put(p, ops[currOp][2],
                 IF ops[currOp][4] = 1 THEN IntOf(req[argPos]) ELSE req[argPos]))

generalUtils_parseCmdline(req, sub, argPos, p) ==
    parsePositional(req,
                    IF sub \in DOMAIN posOpsList THEN posOpsList[sub] ELSE <<>>,
                    IF sub \in DOMAIN keyOpsList THEN keyOpsList[sub] ELSE <<>>,
                    1, argPos, p)

-----------------------------------------------------------------------------
(* parseCmdline *)

\* lines 361-366: the logon-by users, a list split at the colons
SplitByUsers(p) ==
    IF "byUsers" \in DOMAIN p
    THEN Put(p, "byUsers", Split(p["byUsers"], <<":">>))
    ELSE p

\* line 368: maxMemSize is to be defaulted
NeedsMaxMemDefault(sub, p) == sub = S_DIRECTORY /\ "maxMemSize" \notin DOMAIN p

\* DefaultMaxMem that normalises the case of the size
DefaultMaxMemUpper(p) == Put(p, "maxMemSize", Upper(p["priMemSize"]))

\* line 369: rh.parms['maxMemSize'] = rh.parms['priMemSize']
DefaultMaxMem(p) == Put(p, "maxMemSize", p["priMemSize"])

\* lines 330-339: the userid is missing; building the log line adds an int
\* to a str, which raises TypeError before the return statement
parseCmdline_noUserid(req) ==
    [userid |-> <<>>, subfunction |-> <<>>, parms |-> <<>>,
     results |-> updateResults(NoError, msg("0010")), exc |-> "TypeError"]

\* lines 316-373; the request handle is fresh: userid and subfunction are
\* '', parms is {} and overallRC is 0
parseCmdline(req) ==
    IF Len(req) < 2 THEN parseCmdline_noUserid(req)
    ELSE
    LET uid == IF Len(req) = 2 THEN <<>> ELSE Upper(req[2])
        sub == IF Len(req) = 2 THEN Upper(req[2]) ELSE Upper(req[3])
        rs1 == IF sub \notin subfuncHandler
               THEN updateResults(NoError, msg("0011")) ELSE NoError
        g   == IF rs1.overallRC = 0
               THEN generalUtils_parseCmdline(req, sub, 4, <<>>)
               ELSE [parms |-> <<>>, results |-> rs1]
        p1  == SplitByUsers(g.parms)
    IN  IF NeedsMaxMemDefault(sub, p1)
        THEN IF "priMemSize" \in DOMAIN p1
             THEN [userid |-> uid, subfunction |-> sub, parms |-> DefaultMaxMem(p1),
                   results |-> g.results, exc |-> ""]
             ELSE [userid |-> uid, subfunction |-> sub, parms |-> p1,
                   results |-> g.results, exc |-> "KeyError"]
        ELSE [userid |-> uid, subfunction |-> sub, parms |-> p1,
              results |-> g.results, exc |-> ""]

-----------------------------------------------------------------------------
(* doIt and the other handlers *)

\* getVersion and help print and return 0: rh.results is not changed
getVersion(rs) == rs

help(rs) == rs

\* invokeSMCLI's results for Image_Create_DM: success, or a SMAPI failure
SmapiResults == {NoError, [overallRC |-> 8, rs |-> "SMAPI"]}

\* lines 276-280: the sub-function handler is called
doIt(uid, sub, p, rs, maxStorReserved, smapi) ==
    IF sub = S_DIRECTORY THEN createVM(uid, p, rs, maxStorReserved, smapi)
    ELSE [lines |-> <<>>, results |-> IF sub = S_HELP THEN help(rs) ELSE getVersion(rs),
          exc |-> "", returned |-> TRUE, calls |-> <<>>]

-----------------------------------------------------------------------------
(* The requests and configurations explored *)

\* the number of keyword operands on a command line
MaxOpts == 2

\* user_default_max_reserved_memory, converted to MB
ConfMaxReserved == {0, 512, 10000000, 20000000}

T_MakeVM == <<"M","a","k","e","V","M">>
T_vm1 == <<"v","m","1">>
T_pw == <<"p","w">>
T_G == <<"G">>

\* <priMemSize>
PriMemSizes == {<<"1","G">>, <<"1","0","2","4","M">>, <<"2","g">>, <<"1","K">>, <<"x","G">>}

\* --maxMemSize <maxMemSize>
MaxMemSizes == {<<"2","G">>, <<"2","0","4","8","M">>, <<"1","g">>, <<"5","1","2","M">>, <<"1","0","0","0","0","G">>, <<"9","7","6","6","G">>, <<"2","T">>}

\* --vdisk <vdev:size>
VdiskValues ==
    {<<"0","1","0","0",":","1","0","0","M">>, <<"0","1","0","0",":","2","0","4","7","M">>, <<"0","1","0","0",":","2","0","4","8","M">>, <<"0","1","0","0",":","2","0","4","9","M">>, <<"0","1","0","0",":","2","0","4","8","m">>,
     <<"0","1","0","0",":","1","G">>, <<"0","1","0","0",":","2","g">>, <<"0","1","0","0",":","3","G">>, <<"0","1","0","0",":","1","K">>, <<"0","1","0","0",":","-","1","M">>,
     <<"0","1","0","0",":"," ","5","1","2","M"," ">>, <<"0","1","0","0",":","x","M">>, <<"0","1","0","0">>, <<"0","1","0","0",":">>}

\* the other keyword operands, each with a value
OtherOptions ==
    { <<K_cpus, <<"3">>>>, <<K_cpus, <<"x">>>>, <<K_cpus>>,
      <<K_ipl, <<"0","1","0","0">>>>, <<K_iplParam, <<"q","u","i","e","t">>>>, <<K_iplLoadparam, <<"1">>>>,
      <<K_logonby, <<"u","1",":","u","2">>>>, <<K_profile, <<"o","s","d","f","l","t">>>>, <<K_maxCPU, <<"8">>>>,
      <<K_setReservedMem>>, <<K_showparms>>,
      <<K_dedicate, <<"1","0","0","0"," ","1","0","0","1">>>>, <<K_loadportname, <<"0","x","5","0","0","5">>>>,
      <<K_loadlun, <<"0","x","4","0","0","0">>>>, <<K_account, <<"a","c","c","t","1">>>>,
      <<K_comment, <<"a","$","@","$","@","$","$","@","$","@","$","b">>>>,
      <<K_commandSchedule, <<"p","o","o","l","1">>>>, <<K_commandSetShare, <<"r","e","l","a","t","i","v","e"," ","1","0","0">>>>,
      <<K_commandRelocationDomain, <<"d","o","m","1">>>>, <<K_commandPcif, <<"1","0","0",":","a","b","c">>>>,
      <<K_commandPcif, <<"1","0","0">>>>,
      <<K_maxMemSize, <<"2","G">>>>, <<K_vdisk, <<"0","2","0","0",":","1","G">>>>, <<<<"-","-","b","o","g","u","s">>>> }

\* <function> <userid> directory <password> <priMemSize> <privClasses>
Directory(priMemSize) == <<T_MakeVM, T_vm1, <<"d","i","r","e","c","t","o","r","y">>, T_pw, priMemSize, T_G>>

\* the lists of at most n keyword operands
RECURSIVE OptionLists(_)
OptionLists(n) ==
    IF n = 0 THEN {<<>>}
    ELSE OptionLists(n - 1) \cup {o \o s : o \in OtherOptions, s \in OptionLists(n - 1)}

\* requests that stop short of the keyword operands
ShortRequests ==
    { <<T_MakeVM>>,
      <<T_MakeVM, <<"h","e","l","p">>>>, <<T_MakeVM, <<"v","e","r","s","i","o","n">>>>, <<T_MakeVM, <<"d","i","r","e","c","t","o","r","y">>>>,
      <<T_MakeVM, <<"b","o","g","u","s">>>>, <<T_MakeVM, T_vm1, <<"b","o","g","u","s">>>>,
      <<T_MakeVM, T_vm1, <<"h","e","l","p">>>>, <<T_MakeVM, T_vm1, <<"V","e","r","s","i","o","n">>, <<"n","o","w">>>>,
      <<T_MakeVM, T_vm1, <<"d","i","r","e","c","t","o","r","y">>>>,
      <<T_MakeVM, T_vm1, <<"d","i","r","e","c","t","o","r","y">>, T_pw>>,
      <<T_MakeVM, T_vm1, <<"D","I","R","E","C","T","O","R","Y">>, T_pw, <<"1","G">>>> }

\* requests about the memory sizes
MemoryRequests ==
    { Directory(pri) \o m \o r :
        pri \in PriMemSizes,
        m \in {<<>>} \cup {<<K_maxMemSize, x>> : x \in MaxMemSizes},
        r \in {<<>>, <<K_setReservedMem>>} }

\* requests for a virtual disk
VdiskRequests ==
    { Directory(<<"1","G">>) \o r \o <<K_vdisk, v>> :
        v \in VdiskValues, r \in {<<>>, <<K_setReservedMem, K_maxMemSize, <<"5","1","2","M">>>>} }

OptionRequests == { Directory(<<"1","G">>) \o s : s \in OptionLists(MaxOpts) }

\* every keyword operand that writes a line, in the order of createVM
AllOptions ==
    << <<K_profile, <<"o","s","d","f","l","t">>>>, <<K_maxCPU, <<"8">>>>, <<K_account, <<"a","c","c","t","1">>>>,
       <<K_cpus, <<"3">>>>, <<K_commandSchedule, <<"p","o","o","l","1">>>>,
       <<K_commandSetShare, <<"r","e","l","a","t","i","v","e"," ","1","0","0">>>>, <<K_commandRelocationDomain, <<"d","o","m","1">>>>,
       <<K_ipl, <<"0","1","0","0">>>>, <<K_iplParam, <<"q","u","i","e","t">>>>, <<K_iplLoadparam, <<"1">>>>,
       <<K_logonby, <<"u","1",":","u","2">>>>, <<K_maxMemSize, <<"2","G">>>>, <<K_setReservedMem>>,
       <<K_loadportname, <<"0","x","5","0","0","5">>>>, <<K_loadlun, <<"0","x","4","0","0","0">>>>,
       <<K_dedicate, <<"1","0","0","0"," ","1","0","0","1">>>>, <<K_vdisk, <<"0","2","0","0",":","1","G">>>>,
       <<K_comment, <<"f","i","r","s","t","$","@","$","@","$","s","e","c","o","n","d">>>> >>

\* the tokens of a list of keyword operands
RECURSIVE Flatten(_)
Flatten(options) ==
    IF options = <<>> THEN <<>> ELSE options[1] \o Flatten(Tail(options))

Reversed(seq) == [i \in 1..Len(seq) |-> seq[Len(seq) + 1 - i]]

\* requests with every keyword operand, in the order of createVM and in the
\* opposite order
FullRequests ==
    { Directory(<<"1","G">>) \o Flatten(AllOptions),
      Directory(<<"1","G">>) \o Flatten(Reversed(AllOptions)) }

Requests ==
    ShortRequests \cup MemoryRequests \cup VdiskRequests \cup OptionRequests
    \cup FullRequests

-----------------------------------------------------------------------------
(* The state machine: a request handle is built, parseCmdline parses the   *)
(* request, and when it returned 0 the request is driven on to doIt.       *)

Init ==
    /\ conf \in ConfMaxReserved
    /\ request = <<>>
    /\ userid = <<>>
    /\ subfunction = <<>>
    /\ parms = <<>>
    /\ results = NoError
    /\ dirLines = <<>>
    /\ smcliCalls = <<>>
    /\ exc = ""
    /\ pc = "new"

ParseCmdline ==
    /\ pc = "new"
    /\ \E req \in Requests :
         LET r == parseCmdline(req)
         IN  /\ request' = req
             /\ userid' = r.userid
             /\ subfunction' = r.subfunction
             /\ parms' = r.parms
             /\ results' = r.results
             /\ exc' = r.exc
             /\ pc' = IF r.exc # "" THEN "parseRaised" ELSE "parsed"
    /\ UNCHANGED <<conf, dirLines, smcliCalls>>

\* the function is driven on only when parsing returned 0
Driven == pc = "parsed" /\ results.overallRC = 0

DoIt ==
    /\ Driven
    /\ \E smapi \in SmapiResults :
         LET r == doIt(userid, subfunction, parms, results, conf, smapi)
         IN  /\ results' = r.results
             /\ dirLines' = r.lines
             /\ smcliCalls' = r.calls
             /\ exc' = r.exc
             /\ pc' = IF r.exc # "" THEN "doItRaised" ELSE "done"
    /\ UNCHANGED <<conf, request, userid, subfunction, parms>>

Next == ParseCmdline \/ DoIt

Spec == Init /\ [][Next]_vars

-----------------------------------------------------------------------------
(* Reading a state: what the claims below speak about *)

\* createVM was called for this request (it returned or raised)
Built == pc \in {"done", "doItRaised"} /\ subfunction = S_DIRECTORY

Returned == pc = "done" /\ subfunction = S_DIRECTORY

HasLine(line) == \E i \in 1..Len(dirLines) : dirLines[i] = line

StartsWith(s, prefix) == Len(s) >= Len(prefix) /\ SubSeq(s, 1, Len(prefix)) = prefix

\* the positions of the statements of a kind in the directory entry
LinesOf(prefix) == {i \in 1..Len(dirLines) : StartsWith(dirLines[i], prefix)}

\* the block count written in an MDISK statement: its last word but one
BlocksOf(line) == LET w == SplitWhitespace(line) IN IntOf(w[Len(w) - 1])

\* a memory size: a decimal magnitude and the suffix M or G, in either case
IsMemSize(s) ==
    /\ s # <<>>
    /\ UpperChar(LastChar(s)) \in {"M", "G"}
    /\ IsInt(DropLast(s))

\* a memory size in megabytes
MegaBytes(s) ==
    IF UpperChar(LastChar(s)) = "G" THEN IntOf(DropLast(s)) * 1024 ELSE IntOf(DropLast(s))

ReservedAsked == "setReservedMem" \in DOMAIN parms

BadSuffix(s) == s # <<>> /\ UpperChar(LastChar(s)) \notin {"M", "G"}

\* the reserved-memory calculation is asked for and fails
ReservedFails ==
    /\ ReservedAsked
    /\ parms["priMemSize"] # <<>> /\ parms["maxMemSize"] # <<>>
    /\ \/ BadSuffix(parms["priMemSize"])
       \/ BadSuffix(parms["maxMemSize"])
       \/ /\ IsMemSize(parms["priMemSize"]) /\ IsMemSize(parms["maxMemSize"])
          /\ MegaBytes(parms["maxMemSize"]) < MegaBytes(parms["priMemSize"])

\* the reserved-memory step is passed: not asked for, or asked for two
\* memory sizes with max >= primary
ReservedPasses ==
    ReservedAsked =>
        /\ IsMemSize(parms["priMemSize"]) /\ IsMemSize(parms["maxMemSize"])
        /\ MegaBytes(parms["maxMemSize"]) >= MegaBytes(parms["priMemSize"])

\* --vdisk was given as addr:<n><unit>
VdiskGiven ==
    /\ "vdisk" \in DOMAIN parms
    /\ Len(Split(parms["vdisk"], <<":">>)) >= 2
    /\ Strip(Split(parms["vdisk"], <<":">>)[2]) # <<>>
    /\ IsInt(DropLast(Strip(Split(parms["vdisk"], <<":">>)[2])))

VdiskAddr == Split(parms["vdisk"], <<":">>)[1]

VdiskSize == Strip(Split(parms["vdisk"], <<":">>)[2])

\* the blocks asked for: n x 2048 for the unit M, n x 2,097,152 otherwise
VdiskAsked ==
    IF UpperChar(LastChar(VdiskSize)) = "M"
    THEN IntOf(DropLast(VdiskSize)) * 2048
    ELSE IntOf(DropLast(VdiskSize)) * 2097152

-----------------------------------------------------------------------------
(* C1 *)

\* a validation failure of createVM: the reserved-memory calculation fails,
\* or the virtual disk asked for is larger than 4,194,304 blocks
ValidationFails == ReservedFails \/ (VdiskGiven /\ VdiskAsked > 4194304)

\* C1: when a validation of createVM fails, Image_Create_DM is not invoked
\* and createVM returns a non-zero overallRC; Image_Create_DM is invoked at
\* most once, as createVM's last step, for the lines built after every
\* validation passed.
C1_NoSubmitOnValidationFailure ==
    Built =>
        /\ Len(smcliCalls) <= 1
        /\ ValidationFails =>
              /\ smcliCalls = <<>>
              /\ Returned => results.overallRC # 0
        /\ results.rs \in {"0205", "0206", "0207"} => smcliCalls = <<>>
        /\ smcliCalls # <<>> =>
              /\ ~ValidationFails
              /\ Returned
              /\ smcliCalls[1].api = "Image_Create_DM"
              /\ smcliCalls[1].file = ToWrite(dirLines)

\* a disk of more than 4,194,304 blocks was asked for and createVM returned
\* the size-limit error without calling SMAPI
C1_Witness ==
    /\ Returned
    /\ VdiskGiven /\ VdiskAsked > 4194304
    /\ results.rs = "0207"
    /\ smcliCalls = <<>>

-----------------------------------------------------------------------------
(* C2 *)

\* C2: the block count of every MDISK statement createVM builds is at most
\* 4,194,296, whatever the size asked for.
C2_MdiskBlocksBounded ==
    \A i \in LinesOf(L_MDISK) : BlocksOf(dirLines[i]) <= 4194296

\* an MDISK statement was built for a size above 4,194,296 blocks
C2_Witness ==
    /\ Returned
    /\ VdiskGiven /\ VdiskAsked > 4194296
    /\ LinesOf(L_MDISK) # {}

-----------------------------------------------------------------------------
(* C3 *)

\* the size of the virtual disk asked for is 2048M
Vdisk2048M == VdiskGiven /\ VdiskSize = <<"2","0","4","8","M">>

\* C3 as claimed: a disk of size 2048M is built with 4,194,304 blocks.
C3_AsClaimed ==
    (Returned /\ Vdisk2048M /\ ReservedPasses) =>
        /\ results.rs # "0207"
        /\ HasLine(L_MDISK \o VdiskAddr \o L_FB512 \o <<"4","1","9","4","3","0","4">> \o L_MWV)

\* C3, amended: a disk of size 2048M is accepted (2048 x 2048 = 4,194,304
\* blocks is not above the limit) and its MDISK statement carries the
\* maximum of 4,194,296 blocks.
C3_Vdisk2048MClamped ==
    (Built /\ Vdisk2048M /\ ReservedPasses) =>
        /\ Returned
        /\ results.rs # "0207"
        /\ Len(smcliCalls) = 1
        /\ LinesOf(L_MDISK) # {}
        /\ \A i \in LinesOf(L_MDISK) :
              dirLines[i] = L_MDISK \o VdiskAddr \o L_FB512 \o <<"4","1","9","4","2","9","6">> \o L_MWV

C3_Witness ==
    /\ Returned
    /\ Vdisk2048M
    /\ HasLine(L_MDISK \o <<"0","1","0","0">> \o L_FB512 \o <<"4","1","9","4","2","9","6">> \o L_MWV)

-----------------------------------------------------------------------------
(* C4 *)

\* the parameter map holds the three positional operands and maxMemSize only
MinimalParms == DOMAIN parms = {"pw", "priMemSize", "privClasses", "maxMemSize"}

\* C4 as claimed: the directory entry of a minimal parameter map has 4 lines.
C4_AsClaimed == (Returned /\ MinimalParms) => Len(dirLines) = 4

\* C4, amended: the directory entry of a minimal parameter map has exactly 3
\* lines, in this order: the USER statement, COMMAND SET VCONFIG MODE LINUX
\* and COMMAND DEFINE CPU 00 TYPE IFL.
C4_MinimalEntry ==
    (Built /\ MinimalParms) =>
        /\ Returned
        /\ dirLines =
             << L_USER \o userid \o L_SP \o parms["pw"] \o L_SP \o parms["priMemSize"]
                       \o L_SP \o parms["maxMemSize"] \o L_SP \o parms["privClasses"],
                <<"C","O","M","M","A","N","D"," ","S","E","T"," ","V","C","O","N","F","I","G"," ","M","O","D","E"," ","L","I","N","U","X">>,
                <<"C","O","M","M","A","N","D"," ","D","E","F","I","N","E"," ","C","P","U"," ","0","0"," ","T","Y","P","E"," ","I","F","L">> >>

\* createVM returned for a request with the positional operands only
C4_Witness ==
    /\ Returned /\ MinimalParms
    /\ Len(request) = 6
    /\ Len(dirLines) = 3
    /\ dirLines[1] = <<"U","S","E","R"," ","V","M","1"," ","p","w"," ","2","g"," ","2","g"," ","G">>

-----------------------------------------------------------------------------
(* C5 *)

\* parseCmdline has ended, with a return or with an exception
Parsed == pc # "new"

\* DIRECTORY is asked for and a positional operand is missing
PositionalMissing ==
    \/ Len(request) = 2 /\ Upper(request[2]) = S_DIRECTORY
    \/ Len(request) \in 3..5 /\ Upper(request[3]) = S_DIRECTORY

\* C5: parseCmdline always ends by returning a status code, never with an
\* unhandled exception; without a userid, and for DIRECTORY without one of
\* its positional operands, the code returned is not zero.
C5_ParseAlwaysReturns ==
    Parsed =>
        /\ pc # "parseRaised"
        /\ (Len(request) < 2 \/ PositionalMissing) => results.overallRC # 0

-----------------------------------------------------------------------------
(* C6 *)

\* the positions of the token --maxMemSize in the request
MaxMemTokens == {i \in 1..Len(request) : request[i] = K_maxMemSize}

\* parseCmdline returned 0 for DIRECTORY
ParsedDirectory == pc = "parsed" /\ results.overallRC = 0 /\ subfunction = S_DIRECTORY

\* C6: after a successful parse for DIRECTORY the parameter map holds
\* maxMemSize: the priMemSize operand as given when the request has no
\* --maxMemSize, the value given with --maxMemSize otherwise.
C6_MaxMemDefault ==
    ParsedDirectory =>
        /\ "maxMemSize" \in DOMAIN parms
        /\ MaxMemTokens = {} => parms["maxMemSize"] = request[5]
        /\ MaxMemTokens # {} => parms["maxMemSize"] = request[SetMax(MaxMemTokens) + 1]
        /\ parms["priMemSize"] = request[5]

\* maxMemSize was defaulted to a priMemSize written in lower case
C6_Witness ==
    /\ ParsedDirectory
    /\ MaxMemTokens = {}
    /\ request[5] = <<"2","g">>
    /\ parms["maxMemSize"] = <<"2","g">>

-----------------------------------------------------------------------------
(* C7 *)

\* min(max - primary, cap), in megabytes
ReservedMb ==
    LET gap == MegaBytes(parms["maxMemSize"]) - MegaBytes(parms["priMemSize"])
    IN  IF gap < conf THEN gap ELSE conf

\* the gap as the claims state it: <g>M up to 9,999,999, <g div 1024>G above
ReservedText ==
    IF ReservedMb <= 9999999
    THEN FormatInt(ReservedMb) \o <<"M">>
    ELSE FormatInt(ReservedMb \div 1024) \o <<"G">>

\* C7: for two memory sizes with max >= primary in megabytes and the cap
\* conf, getReservedMemSize returns g = min(max - primary, conf) as <g>M when
\* g <= 9,999,999 and as <g div 1024>G above, and reports no error.
C7_ReservedGap ==
    (Built /\ ReservedAsked /\ ReservedPasses) =>
        /\ results.rs \notin {"0205", "0206"}
        /\ LinesOf(L_RESERVED) # {}
        /\ \A i \in LinesOf(L_RESERVED) : dirLines[i] = L_RESERVED \o ReservedText

\* a gap above 9,999,999 MB after the cap of 10,000,000 MB, written in G
C7_Witness ==
    /\ Returned /\ ReservedAsked
    /\ conf = 10000000
    /\ parms["maxMemSize"] = <<"1","0","0","0","0","G">>
    /\ HasLine(<<"C","O","M","M","A","N","D"," ","D","E","F"," ","S","T","O","R"," ","R","E","S","E","R","V","E","D"," ","9","7","6","5","G">>)

-----------------------------------------------------------------------------
(* C8 *)

\* primary and max memory are memory sizes of the same number of megabytes
PrimaryEqualsMax ==
    /\ IsMemSize(parms["priMemSize"]) /\ IsMemSize(parms["maxMemSize"])
    /\ MegaBytes(parms["priMemSize"]) = MegaBytes(parms["maxMemSize"])

\* C8: with setReservedMem and primary memory equal to max memory, createVM
\* writes COMMAND DEF STOR RESERVED 0M, for every configured maximum.
C8_ReservedZeroLine ==
    (Built /\ ReservedAsked /\ PrimaryEqualsMax) =>
        /\ HasLine(<<"C","O","M","M","A","N","D"," ","D","E","F"," ","S","T","O","R"," ","R","E","S","E","R","V","E","D"," ","0","M">>)
        /\ Cardinality(LinesOf(L_RESERVED)) = 1

\* the line is written for a defaulted maxMemSize and a cap above zero
C8_Witness ==
    /\ Returned /\ ReservedAsked
    /\ MaxMemTokens = {}
    /\ conf > 0
    /\ HasLine(<<"C","O","M","M","A","N","D"," ","D","E","F"," ","S","T","O","R"," ","R","E","S","E","R","V","E","D"," ","0","M">>)

-----------------------------------------------------------------------------
(* C9 *)

\* the positions of the token --commandPcif, and of --commandSchedule
PcifTokens == {i \in 7..Len(request) : request[i] = K_commandPcif}

ScheduleTokens == {i \in 7..Len(request) : request[i] = K_commandSchedule}

\* the value functionId:alias given with --commandPcif
PcifValue == Split(request[SetMax(PcifTokens) + 1], <<":">>)

\* C9: for --commandPcif functionId:alias the directory entry holds COMMAND
\* ATTACH PCIF functionId * AS alias, after the relocation-domain line and
\* before the IPL line, and holds no COMMAND SCHEDULE line unless
\* --commandSchedule was given too.
C9_PcifLine ==
    (Returned /\ PcifTokens # {} /\ Len(PcifValue) = 2) =>
        /\ HasLine(L_PCIF \o PcifValue[1] \o L_AS \o PcifValue[2])
        /\ \A i \in LinesOf(L_PCIF) :
              /\ \A j \in LinesOf(L_RDOMAIN) : j < i
              /\ \A j \in LinesOf(L_IPL) : i < j
        /\ ScheduleTokens = {} => LinesOf(L_SCHEDULE) = {}

-----------------------------------------------------------------------------
(* C10 *)

\* C10: for --vdisk addr:<n><unit> the blocks are n x 2048 for the unit M
\* (in either case) and n x 2,097,152 for any other unit; above 4,194,304
\* blocks createVM fails with the size-limit error and builds no MDISK line;
\* otherwise the MDISK line carries 4,194,296 when the blocks are above
\* 4,194,296, and the blocks unchanged when they are not.
C10_VdiskBlocks ==
    (Built /\ VdiskGiven /\ ReservedPasses) =>
        /\ Returned
        /\ IF VdiskAsked > 4194304
           THEN /\ results.overallRC # 0 /\ results.rs = "0207"
                /\ LinesOf(L_MDISK) = {}
                /\ smcliCalls = <<>>
           ELSE /\ results.rs # "0207"
                /\ Cardinality(LinesOf(L_MDISK)) = 1
                /\ \A i \in LinesOf(L_MDISK) :
                      /\ StartsWith(dirLines[i], L_MDISK \o VdiskAddr \o L_FB512)
                      /\ BlocksOf(dirLines[i]) =
                           IF VdiskAsked > 4194296 THEN 4194296 ELSE VdiskAsked

\* a unit that is neither M nor G is taken as G
C10_Witness ==
    /\ Returned
    /\ VdiskGiven /\ VdiskSize = <<"1","K">>
    /\ HasLine(<<"M","D","I","S","K"," ","0","1","0","0"," ","F","B","-","5","1","2"," ","V","-","D","I","S","K"," ","2","0","9","7","1","5","2"," ","M","W","V">>)

-----------------------------------------------------------------------------
(* C11 *)

\* the positions of the COMMAND statements: the console mode, the CPU
\* definitions, the scheduling pool, the relocation domain, the PCI function
\* and the reserved memory
CommandLines == LinesOf(<<"C","O","M","M","A","N","D"," ">>)

DeviceLines == LinesOf(L_DEDICATE) \cup LinesOf(L_MDISK)

CommentLines == LinesOf(L_STAR)

\* C11: in every directory entry createVM builds the USER line is the first
\* line, the INCLUDE line of a profile is the second, every DEDICATE and MDISK
\* line comes after every MACHINE and every COMMAND line, and the comment
\* lines come last.
C11_LineOrder ==
    Built =>
        /\ LinesOf(L_USER) = {1}
        /\ LinesOf(L_INCLUDE) = IF "profName" \in DOMAIN parms THEN {2} ELSE {}
        /\ \A d \in DeviceLines :
              \A c \in LinesOf(L_MACHINE) \cup CommandLines : c < d
        /\ \A k \in CommentLines :
              \A j \in (1..Len(dirLines)) \ CommentLines : j < k

\* an entry with the INCLUDE and MACHINE lines, a second CPU, the reserved
\* memory, two DEDICATE lines, an MDISK line and two comment lines
C11_Witness ==
    /\ Returned
    /\ LinesOf(L_INCLUDE) = {2}
    /\ LinesOf(L_MACHINE) # {}
    /\ LinesOf(L_CPU) \ LinesOf(L_CPU00) # {}
    /\ LinesOf(L_RESERVED) # {}
    /\ Cardinality(LinesOf(L_DEDICATE)) = 2
    /\ LinesOf(L_MDISK) # {}
    /\ Cardinality(CommentLines) = 2
    /\ CommentLines = {Len(dirLines) - 1, Len(dirLines)}

====
